---- MODULE Spec2Model ----
(***************************************************************************)
(* TickerGenie: the ticker extractor (extractTickers, isValidTicker), the  *)
(* rating aggregator (fetchTickerRating, fetchMultipleRatings,             *)
(* getTopPicks) and the request handlers that run them.                    *)
(*                                                                         *)
(* The repository holds two copies of the extractor:                       *)
(*   "lib"      src/backend/lib/tickerExtractor.ts  (pattern [A-Z]{2,5})   *)
(*   "part_009" src/unnamed/part_009                (pattern [A-Z]{1,5})   *)
(* Definitions without suffix model the first, those ending in _9 the      *)
(* second.  A text is a TLA+ string; its characters are SubSeq(s, n, n).   *)
(***************************************************************************)
EXTENDS Integers, Sequences, FiniteSets, TLC

VARIABLES
  copy,      \* which copy of tickerExtractor is loaded
  text,      \* the argument of extractTickers / isValidTicker
  epc,       \* extractTickers: "ready", "returned" or "threw"
  result,    \* the array returned by extractTickers
  vpc,       \* isValidTicker: "ready" or "returned"
  valid,     \* the boolean returned by isValidTicker
  tickers,   \* the argument of fetchMultipleRatings
  fpc,       \* fetchMultipleRatings: "ready", "awaitAll", "delay",
             \* "returned" or "threw"
  i,         \* its loop variable
  results,   \* its local array results
  calls,     \* the fetchTickerRating call of each input position
  issued,    \* the tickers the provider was asked for, in order
  delays,    \* the inter-batch delays waited so far
  ratings,   \* the first argument of getTopPicks
  count,     \* its second argument, absent when the caller gives none
  ppc,       \* getTopPicks: "ready" or "returned"
  scored,    \* its local array scored, as the map built it
  picks,     \* the array it returned
  endpoint,  \* the request handler: "lambda" (functions/analyze.ts),
             \* "analyze" (POST /analyze) or "analyzeChannel"
             \* (POST /api/analyze-channel)
  request,   \* what the request holds
  hpc,       \* the handler: "received", "awaitLatestVideo",
             \* "awaitMetadata", "awaitTranscript", "awaitRatings" or
             \* "responded"
  metadata,  \* the value of getVideoMetadata
  failures,  \* the provider calls of the request that failed
  response,  \* the response sent, absent before
  second     \* a second invocation of fetchMultipleRatings that runs
             \* while the first does: its tickers, fpc, i, results, calls,
             \* issued and delays

evars == <<copy, text, epc, result, vpc, valid>>
fvars == <<tickers, fpc, i, results, calls, issued, delays>>
pvars == <<ratings, count, ppc, scored, picks>>
hvars == <<endpoint, request, hpc, metadata, failures, response>>
svars == <<second>>
vars == <<evars, fvars, pvars, hvars, svars>>

(***************************************************************************)
(* Bounds                                                                  *)
(***************************************************************************)
\* longest text enumerated character by character
MaxLen == 6
\* most words in a text put together from SampleWords
MaxWords == 2
\* longest input of fetchMultipleRatings
MaxTickers == 11
\* most records given to getTopPicks
MaxRatings == 6
\* most tickers given to two interleaved invocations of
\* fetchMultipleRatings together
MaxBoth == 7
\* largest count given to getTopPicks
MaxCount == 5

(***************************************************************************)
(* Characters (JavaScript regular expressions without the u flag)          *)
(***************************************************************************)
UpperLetters == "ABCDEFGHIJKLMNOPQRSTUVWXYZ"
LowerLetters == "abcdefghijklmnopqrstuvwxyz"
Digits == "0123456789"

CharAt(s, n) == SubSeq(s, n, n)

CharsOf(s) == { CharAt(s, n) : n \in 1..Len(s) }

\* position of the character c in s
IndexIn(s, c) == CHOOSE n \in 1..Len(s) : CharAt(s, n) = c

\* [A-Z]
UpperSet == CharsOf(UpperLetters)
IsUpper(c) == c \in UpperSet

\* \w, which is [A-Za-z0-9_]
WordSet == UpperSet \cup CharsOf(LowerLetters) \cup CharsOf(Digits) \cup {"_"}
IsWordChar(c) == c \in WordSet

\* UTF-16 code units, the key Array.prototype.sort() orders by
CodeTable ==
  [c \in WordSet \cup {" ", ","} |->
     IF c \in UpperSet THEN 64 + IndexIn(UpperLetters, c)
     ELSE IF c \in CharsOf(LowerLetters) THEN 96 + IndexIn(LowerLetters, c)
     ELSE IF c \in CharsOf(Digits) THEN 47 + IndexIn(Digits, c)
     ELSE IF c = "_" THEN 95
     ELSE IF c = " " THEN 32
     ELSE 44]
CharCode(c) == CodeTable[c]

(***************************************************************************)
(* The static dictionaries                                                 *)
(***************************************************************************)
EXCLUDED_WORDS ==
  { "THE", "AND", "FOR", "ARE", "BUT", "NOT", "YOU", "ALL", "CAN", "HAD",
    "HER", "WAS", "ONE", "OUR", "OUT", "HAS", "HIS", "HOW", "ITS", "LET",
    "MAY", "NEW", "NOW", "OLD", "SEE", "WAY", "WHO", "BOY", "DID", "GET",
    "HIM", "HOT", "LOW", "OWN", "SAY", "SHE", "TOO", "USE", "TOP", "HIGH",
    "JUST", "LIKE", "MAKE", "OVER", "SUCH", "TAKE", "INTO", "YEAR", "YOUR",
    "GOOD", "SOME", "THEM", "TIME", "VERY", "WHEN", "COME", "MADE", "FIND",
    "MORE", "LONG", "HERE", "MANY", "THAN", "MOST", "NEXT", "ONLY", "WHAT",
    "WILL", "WITH", "HAVE", "THIS", "THAT", "FROM", "THEY", "BEEN", "CALL",
    "EACH", "LIVE", "MUCH", "NEED", "PART", "SURE", "TELL", "WELL", "BACK",
    "BEST", "BOTH", "DOWN", "EVEN", "GIVE", "LAST", "LOOK", "WANT", "WORK",
    "ABOUT", "AFTER", "AGAIN", "BELOW", "COULD", "EVERY", "FIRST", "FOUND",
    "GREAT", "HOUSE", "LARGE", "LEARN", "NEVER", "OTHER", "PLACE", "PLANT",
    "POINT", "RIGHT", "SMALL", "SOUND", "SPELL", "STILL", "STUDY", "THEIR",
    "THERE", "THESE", "THING", "THINK", "THREE", "WATER", "WHERE", "WHICH",
    "WHILE", "WORLD", "WOULD", "WRITE", "BEING", "UNDER", "STOCK", "MONEY",
    "PRICE", "SHARE", "VALUE", "TRADE", "MAYBE", "GOING", "TODAY", "VIDEO",
    "ETF", "IPO", "CEO", "CFO", "COO", "CTO", "GDP", "YTD", "QOQ", "MOM",
    "USD", "EUR", "GBP", "JPY", "CAD", "AUD", "CHF", "CNY", "HKD", "SGD",
    "ROI", "YOY", "EPS", "PE", "PB", "PS", "NAV", "AUM", "EBIT", "EBITDA",
    "SEC", "NYSE", "AMEX", "OTC", "ADR", "REIT", "GUYS", "OKAY", "LETS",
    "LINK", "CHECK", "HELLO", "THANKS" }

\* the copy in part_009 adds five words
EXCLUDED_WORDS_9 == EXCLUDED_WORDS \cup { "A", "I", "FED", "ROE", "EV" }

KNOWN_TICKERS ==
  { "AAPL", "MSFT", "GOOG", "GOOGL", "AMZN", "META", "NVDA", "TSLA", "AMD",
    "INTC", "JPM", "BAC", "WFC", "GS", "MS", "C", "BRK", "BRKB", "V", "MA",
    "JNJ", "UNH", "PFE", "MRK", "ABBV", "TMO", "ABT", "LLY", "BMY", "AMGN",
    "WMT", "HD", "MCD", "NKE", "SBUX", "TGT", "COST", "LOW", "TJX", "DG",
    "DIS", "NFLX", "CRM", "PYPL", "SQ", "SHOP", "UBER", "LYFT", "SNAP",
    "TWTR", "PLTR", "COIN", "RIVN", "LCID", "NIO", "XPEV", "LI", "BABA",
    "JD", "PDD" }

(***************************************************************************)
(* The pattern /\b([A-Z]{min,5})\b/g and String.prototype.match            *)
(***************************************************************************)
TICKER_REGEX == [min |-> 2, max |-> 5]
TICKER_REGEX_9 == [min |-> 1, max |-> 5]

\* is position n of s (1-based) inside s and a word character
WordAt(s, n) == n >= 1 /\ n <= Len(s) /\ IsWordChar(CharAt(s, n))

\* \b just before position p (p = Len(s) + 1 is the end of s)
WordBoundaryNone(s, p) == TRUE
WordBoundary(s, p) == WordAt(s, p - 1) # WordAt(s, p)

\* the greedy quantifier: the uppercase letters from position p on, at
\* most max of them
RECURSIVE UpperRun(_, _, _)
UpperRun(s, p, max) ==
  IF max = 0 \/ p > Len(s) \/ ~IsUpper(CharAt(s, p)) THEN 0
  ELSE 1 + UpperRun(s, p + 1, max - 1)

\* backtracking: the longest k in min..greedy with \b after the k-th
\* letter, 0 when there is none
RECURSIVE Backtrack(_, _, _, _)
Backtrack(s, p, k, min) ==
  IF k < min THEN 0
  ELSE IF WordBoundary(s, p + k) THEN k
  ELSE Backtrack(s, p, k - 1, min)

\* length of the match of the pattern that starts at p, 0 when none does
MatchAt(s, p, re) ==
  IF WordBoundary(s, p) THEN Backtrack(s, p, UpperRun(s, p, re.max), re.min)
  ELSE 0

\* the g flag: all matches left to right, the search resuming where the
\* last match ended
RECURSIVE ScanFrom(_, _, _)
ScanFrom(s, p, re) ==
  IF p > Len(s) THEN << >>
  ELSE LET k == MatchAt(s, p, re)
       IN IF k > 0 THEN << SubSeq(s, p, p + k - 1) >> \o ScanFrom(s, p + k, re)
          ELSE ScanFrom(s, p + 1, re)

\* String.prototype.match with a global pattern: null when nothing matches
StringMatch(s, re) ==
  LET found == ScanFrom(s, 1, re)
  IN IF found = << >> THEN [isNull |-> TRUE, items |-> << >>]
     ELSE [isNull |-> FALSE, items |-> found]

\* text.match(TICKER_REGEX) || []
OrEmptyNoDefault(m) == m
OrEmpty(m) == IF m.isNull THEN [isNull |-> FALSE, items |-> << >>] ELSE m

(***************************************************************************)
(* extractTickers                                                          *)
(***************************************************************************)
Range(seq) == { seq[n] : n \in 1..Len(seq) }

\* Set.prototype.add on a Set kept in insertion order
SetAdd(seq, x) == IF x \in Range(seq) THEN seq ELSE Append(seq, x)

\* a < b in the order of Array.prototype.sort() without comparator:
\* code unit by code unit, a proper prefix first
RECURSIVE StrLess(_, _)
StrLess(a, b) ==
  IF b = "" THEN FALSE
  ELSE IF a = "" THEN TRUE
  ELSE LET ca == CharCode(CharAt(a, 1))
           cb == CharCode(CharAt(b, 1))
       IN IF ca # cb THEN ca < cb
          ELSE StrLess(SubSeq(a, 2, Len(a)), SubSeq(b, 2, Len(b)))

\* Array.from(tickers).sort()
SortedArrayUnsorted(seq) == seq
SortedArray(seq) == SortSeq(seq, StrLess)

\* one turn of the loop over the matches
KeepMatchExcludedFirst(m, excluded) ==
  IF m \in excluded THEN FALSE
  ELSE IF m \in KNOWN_TICKERS THEN TRUE
  ELSE Len(m) >= 2 /\ Len(m) <= 5
KeepMatchNoExclusion(m, excluded) ==
  IF m \in KNOWN_TICKERS THEN TRUE
  ELSE Len(m) >= 2 /\ Len(m) <= 5
KeepMatch(m, excluded) ==
  IF m \in KNOWN_TICKERS THEN TRUE
  ELSE IF m \in excluded THEN FALSE
  ELSE Len(m) >= 2 /\ Len(m) <= 5

RECURSIVE FilterMatches(_, _, _)
FilterMatches(matches, set, excluded) ==
  IF matches = << >> THEN set
  ELSE FilterMatches(Tail(matches),
                     IF KeepMatch(Head(matches), excluded)
                     THEN SetAdd(set, Head(matches)) ELSE set,
                     excluded)

\* the body shared by both copies; for..of over null throws a TypeError
ExtractWith(s, re, excluded) ==
  LET matches == OrEmpty(StringMatch(s, re))
  IN IF matches.isNull THEN [threw |-> TRUE, value |-> << >>]
     ELSE [threw |-> FALSE,
           value |-> SortedArray(FilterMatches(matches.items, << >>, excluded))]

extractTickers(s) == ExtractWith(s, TICKER_REGEX, EXCLUDED_WORDS)
extractTickers_9(s) == ExtractWith(s, TICKER_REGEX_9, EXCLUDED_WORDS_9)

(***************************************************************************)
(* isValidTicker                                                           *)
(***************************************************************************)
\* /^[A-Z]{min,5}$/.test(ticker)
TestAnchored(s, min, max) ==
  /\ Len(s) >= min
  /\ Len(s) <= max
  /\ \A n \in 1..Len(s) : IsUpper(CharAt(s, n))

isValidTickerNoFormat(ticker) ==
  IF ticker \in KNOWN_TICKERS THEN TRUE
  ELSE IF ticker \in EXCLUDED_WORDS THEN FALSE
  ELSE TRUE
isValidTicker(ticker) ==
  IF ~TestAnchored(ticker, 2, 5) THEN FALSE
  ELSE IF ticker \in KNOWN_TICKERS THEN TRUE
  ELSE IF ticker \in EXCLUDED_WORDS THEN FALSE
  ELSE TRUE

isValidTicker_9(ticker) ==
  IF ~TestAnchored(ticker, 1, 5) THEN FALSE
  ELSE IF ticker \in KNOWN_TICKERS THEN TRUE
  ELSE IF Len(ticker) < 2 THEN FALSE
  ELSE IF ticker \in EXCLUDED_WORDS_9 THEN FALSE
  ELSE TRUE

(***************************************************************************)
(* The texts the functions are applied to                                  *)
(***************************************************************************)
\* two uppercase letters (V is a known ticker), a lowercase letter, a
\* non-word character
Alphabet == {"V", "A", "a", " "}

RECURSIVE StringsOfLen(_)
StringsOfLen(n) ==
  IF n = 0 THEN {""}
  ELSE { s \o c : s \in StringsOfLen(n - 1), c \in Alphabet }

CharTexts == UNION { StringsOfLen(n) : n \in 0..MaxLen }

SampleWords ==
  { "LOW", "V", "C", "B", "A", "PS", "THE", "FED", "AAPL", "XYZ", "GOOGL",
    "TOOLONG", "aapl", "Tsla", "AA1", "A_B" }

Separators == {" ", ","}

RECURSIVE WordTextsOfLen(_)
WordTextsOfLen(n) ==
  IF n = 1 THEN SampleWords
  ELSE { s \o sep \o w : s \in WordTextsOfLen(n - 1), sep \in Separators,
                          w \in SampleWords }

WordTexts == UNION { WordTextsOfLen(n) : n \in 1..MaxWords }

Texts == CharTexts \cup WordTexts

Copies == {"lib", "part_009"}

(***************************************************************************)
(* The extractor as a state machine: one call of each function             *)
(***************************************************************************)
ExtractOf(c, s) == IF c = "lib" THEN extractTickers(s) ELSE extractTickers_9(s)
ValidOf(c, s) == IF c = "lib" THEN isValidTicker(s) ELSE isValidTicker_9(s)

EInit ==
  /\ copy \in Copies
  /\ text \in Texts
  /\ epc = "ready"
  /\ result = << >>
  /\ vpc = "ready"
  /\ valid = FALSE

CallExtractTickers ==
  /\ epc = "ready"
  /\ LET r == ExtractOf(copy, text)
     IN /\ epc' = IF r.threw THEN "threw" ELSE "returned"
        /\ result' = r.value
  /\ UNCHANGED <<copy, text, vpc, valid>>
  /\ UNCHANGED <<fvars, pvars, hvars, svars>>

CallIsValidTicker ==
  /\ vpc = "ready"
  /\ vpc' = "returned"
  /\ valid' = ValidOf(copy, text)
  /\ UNCHANGED <<copy, text, epc, result>>
  /\ UNCHANGED <<fvars, pvars, hvars, svars>>

(***************************************************************************)
(* The rating provider and fetchTickerRating                               *)
(***************************************************************************)
\* a value that may be absent (null or undefined): << >> or << x >>
Absent == << >>
Some(x) == << x >>

\* a ?? d
Coalesce(a, d) == IF a = Absent THEN d ELSE a[1]

\* the tickers asked about, some of them twice
TickerPool ==
  << "AAPL", "MSFT", "V", "AAPL", "NVDA", "LOW", "TSLA", "MSFT", "C",
     "GOOGL", "AAPL", "META" >>

\* result[0] of the provider's answer for a ticker, when the call succeeds:
\* shortName, regularMarketPrice.raw, targetMeanPrice.raw,
\* recommendationKey, numberOfAnalystOpinions.raw
Quote(t) ==
  CASE t = "AAPL" ->
         [shortName |-> Some("Apple Inc."), regularMarketPrice |-> Some(200),
          targetMeanPrice |-> Some(250), recommendationKey |-> Some("buy"),
          numberOfAnalystOpinions |-> Some(40)]
    [] t = "MSFT" ->
         [shortName |-> Some("Microsoft"), regularMarketPrice |-> Some(400),
          targetMeanPrice |-> Some(300),
          recommendationKey |-> Some("strong_buy"),
          numberOfAnalystOpinions |-> Some(8)]
    [] t = "V" ->
         [shortName |-> Some(""), regularMarketPrice |-> Absent,
          targetMeanPrice |-> Some(300), recommendationKey |-> Some("hold"),
          numberOfAnalystOpinions |-> Absent]
    [] t = "NVDA" ->
         [shortName |-> Some("NVIDIA"), regularMarketPrice |-> Some(100),
          targetMeanPrice |-> Some(0),
          recommendationKey |-> Some("underperform"),
          numberOfAnalystOpinions |-> Some(10)]
    [] t = "LOW" ->
         [shortName |-> Absent, regularMarketPrice |-> Some(50),
          targetMeanPrice |-> Absent, recommendationKey |-> Some("sell"),
          numberOfAnalystOpinions |-> Some(3)]
    [] t = "TSLA" ->
         [shortName |-> Some("Tesla"), regularMarketPrice |-> Some(0),
          targetMeanPrice |-> Some(100), recommendationKey |-> Some("none"),
          numberOfAnalystOpinions |-> Some(0)]
    [] OTHER ->
         [shortName |-> Absent, regularMarketPrice |-> Absent,
          targetMeanPrice |-> Absent, recommendationKey |-> Absent,
          numberOfAnalystOpinions |-> Absent]

\* a number is truthy unless it is null or 0
Truthy(a) == a # Absent /\ a[1] # 0

\* ratingMap[recommendationKey] || 'Unknown'
ratingMap(key) ==
  CASE key = "strong_buy" -> "Strong Buy"
    [] key = "buy" -> "Buy"
    [] key = "hold" -> "Hold"
    [] key = "underperform" -> "Sell"
    [] key = "sell" -> "Strong Sell"
    [] OTHER -> "Unknown"

\* trendMap[recommendationKey] || 'unknown'
trendMap(key) ==
  CASE key = "strong_buy" -> "strongBuy"
    [] key = "buy" -> "buy"
    [] key = "hold" -> "hold"
    [] key = "underperform" -> "sell"
    [] key = "sell" -> "strongSell"
    [] OTHER -> "unknown"

\* the record fetchTickerRating builds from result[0]; the prices of Quote
\* are such that the division is exact
MakeRating(ticker, data) ==
  LET currentPrice == data.regularMarketPrice
      targetPrice == data.targetMeanPrice
      recommendationKey ==
        IF data.recommendationKey = Absent \/ data.recommendationKey = Some("")
        THEN "unknown" ELSE data.recommendationKey[1]
      upside ==
        IF Truthy(currentPrice) /\ Truthy(targetPrice)
        THEN Some(((targetPrice[1] - currentPrice[1]) * 100) \div currentPrice[1])
        ELSE Absent
  IN [ticker |-> ticker,
      companyName |-> IF data.shortName = Absent \/ data.shortName = Some("")
                      THEN ticker ELSE data.shortName[1],
      currentPrice |-> currentPrice,
      targetPrice |-> targetPrice,
      rating |-> ratingMap(recommendationKey),
      numberOfAnalysts |-> Coalesce(data.numberOfAnalystOpinions, 0),
      recommendationTrend |-> trendMap(recommendationKey),
      upside |-> upside]

\* the states of the promise a fetchTickerRating call returns; ok records
\* whether the provider answered the call with a quote
NotCalled == [st |-> "none", val |-> Absent, ok |-> FALSE]
Pending(at) == [st |-> at, val |-> Absent, ok |-> FALSE]
Fulfilled(v, ok) == [st |-> "fulfilled", val |-> v, ok |-> ok]
Rejected == [st |-> "rejected", val |-> Absent, ok |-> FALSE]

\* catch (error) { console.error(...); return null; }
CatchRethrows == Rejected
CatchRetries == Pending("awaitFetch")
Catch == Fulfilled(Absent, FALSE)

\* if (!response.ok) { ...; return null; }
ReturnOnNotOk == Fulfilled(Absent, FALSE)

\* if (!data.quoteSummary?.result?.[0]) { return null; }
ReturnOnNoResult == Fulfilled(Absent, FALSE)

\* return { ticker, companyName, ... }
ReturnRating(ticker) == Fulfilled(Some(MakeRating(ticker, Quote(ticker))), TRUE)

(***************************************************************************)
(* fetchMultipleRatings                                                    *)
(***************************************************************************)
batchSize == 5

Min(a, b) == IF a < b THEN a ELSE b

\* the input positions (1-based) of tickers.slice(from, from + batchSize)
BatchAtByResults(from) ==
  (Len(results) + 1)..Min(Len(results) + batchSize, Len(tickers))
BatchAtShort(from) == (from + 1)..Min(from + batchSize - 1, Len(tickers))
BatchAt(from) == (from + 1)..Min(from + batchSize, Len(tickers))

\* batch.map(ticker => fetchTickerRating(ticker)): every call of the batch
\* runs up to its await fetch(url)
IssueBatch(from) ==
  /\ calls' = [k \in DOMAIN calls |->
                 IF k \in BatchAt(from) THEN Pending("awaitFetch") ELSE calls[k]]
  /\ issued' = issued \o SubSeq(tickers, from + 1, Min(from + batchSize, Len(tickers)))

\* Promise.all over the calls of a batch
PromiseAllFirstSettled(batch) ==
  IF \E k \in batch : calls[k].st = "rejected" THEN "rejected"
  ELSE IF \E k \in batch : calls[k].st = "fulfilled" THEN "fulfilled"
  ELSE "pending"
PromiseAllTimesOut(batch) ==
  IF \E k \in batch : calls[k].st = "rejected" THEN "rejected"
  ELSE "fulfilled"
PromiseAllAbortsOnNull(batch) ==
  IF \E k \in batch : calls[k].st = "rejected" THEN "rejected"
  ELSE IF \E k \in batch : calls[k].st = "fulfilled" /\ calls[k].val = Absent
  THEN "fulfilled"
  ELSE IF \A k \in batch : calls[k].st = "fulfilled" THEN "fulfilled"
  ELSE "pending"
PromiseAll(batch) ==
  IF \E k \in batch : calls[k].st = "rejected" THEN "rejected"
  ELSE IF \A k \in batch : calls[k].st = "fulfilled" THEN "fulfilled"
  ELSE "pending"

\* for (const result of batchResults) if (result) results.push(result)
RECURSIVE PushResultsUntilNull(_, _, _)
PushResultsUntilNull(acc, k, last) ==
  IF k > last \/ calls[k].val = Absent THEN acc
  ELSE PushResultsUntilNull(Append(acc, calls[k].val[1]), k + 1, last)

RECURSIVE PushResultsReversed(_, _, _)
PushResultsReversed(acc, k, last) ==
  IF k > last THEN acc
  ELSE PushResultsReversed(IF calls[last].val # Absent
                           THEN Append(acc, calls[last].val[1]) ELSE acc,
                           k, last - 1)

RECURSIVE PushResults(_, _, _)
PushResults(acc, k, last) ==
  IF k > last THEN acc
  ELSE PushResults(IF calls[k].val # Absent THEN Append(acc, calls[k].val[1])
                   ELSE acc,
                   k + 1, last)

TickerInputs == { SubSeq(TickerPool, 1, n) : n \in 0..MaxTickers }

FInit ==
  /\ tickers \in TickerInputs
  /\ fpc = "ready"
  /\ i = 0
  /\ results = << >>
  /\ calls = [k \in 1..Len(tickers) |-> NotCalled]
  /\ issued = << >>
  /\ delays = 0

\* the call of fetchMultipleRatings, up to its first await
CallFetchMultipleRatings ==
  /\ fpc = "ready"
  /\ IF 0 < Len(tickers)
     THEN /\ IssueBatch(0)
          /\ fpc' = "awaitAll"
     ELSE /\ fpc' = "returned"
          /\ UNCHANGED <<calls, issued>>
  /\ UNCHANGED <<tickers, i, results, delays>>
  /\ UNCHANGED <<evars, pvars, hvars, svars>>

\* await fetch(url) rejects: a network error
FetchRejects(k) ==
  /\ calls[k].st = "awaitFetch"
  /\ calls' = [calls EXCEPT ![k] = Catch]
  /\ UNCHANGED <<tickers, fpc, i, results, issued, delays>>
  /\ UNCHANGED <<evars, pvars, hvars, svars>>

\* the response arrives with a status that is not OK
ResponseNotOk(k) ==
  /\ calls[k].st = "awaitFetch"
  /\ calls' = [calls EXCEPT ![k] = ReturnOnNotOk]
  /\ UNCHANGED <<tickers, fpc, i, results, issued, delays>>
  /\ UNCHANGED <<evars, pvars, hvars, svars>>

\* the response arrives with an OK status: on to await response.json()
ResponseOk(k) ==
  /\ calls[k].st = "awaitFetch"
  /\ calls' = [calls EXCEPT ![k] = Pending("awaitJson")]
  /\ UNCHANGED <<tickers, fpc, i, results, issued, delays>>
  /\ UNCHANGED <<evars, pvars, hvars, svars>>

\* response.json() rejects, or the body is JSON that has no properties
\* (null): a malformed body
BodyMalformed(k) ==
  /\ calls[k].st = "awaitJson"
  /\ calls' = [calls EXCEPT ![k] = Catch]
  /\ UNCHANGED <<tickers, fpc, i, results, issued, delays>>
  /\ UNCHANGED <<evars, pvars, hvars, svars>>

\* the body holds no quoteSummary.result[0]
BodyEmpty(k) ==
  /\ calls[k].st = "awaitJson"
  /\ calls' = [calls EXCEPT ![k] = ReturnOnNoResult]
  /\ UNCHANGED <<tickers, fpc, i, results, issued, delays>>
  /\ UNCHANGED <<evars, pvars, hvars, svars>>

\* the body holds a quote
BodyQuote(k) ==
  /\ calls[k].st = "awaitJson"
  /\ calls' = [calls EXCEPT ![k] = ReturnRating(tickers[k])]
  /\ UNCHANGED <<tickers, fpc, i, results, issued, delays>>
  /\ UNCHANGED <<evars, pvars, hvars, svars>>

\* if (i + batchSize < tickers.length): another batch follows
MoreBatchesAlways(from) == TRUE
MoreBatches(from) == from + batchSize < Len(tickers)

\* await Promise.all(...) settles; the rest of the loop body runs up to the
\* next await or to the return
BatchSettles ==
  /\ fpc = "awaitAll"
  /\ PromiseAll(BatchAt(i)) # "pending"
  /\ IF PromiseAll(BatchAt(i)) = "rejected"
     THEN /\ fpc' = "threw"
          /\ UNCHANGED <<i, results>>
     ELSE /\ results' = PushResults(results, i + 1, Min(i + batchSize, Len(tickers)))
          /\ IF MoreBatches(i)
             THEN /\ fpc' = "delay"
                  /\ i' = i
             ELSE /\ fpc' = "returned"
                  /\ i' = i + batchSize
  /\ UNCHANGED <<tickers, calls, issued, delays>>
  /\ UNCHANGED <<evars, pvars, hvars, svars>>

\* the 200 ms timer fires; the loop goes on to the next batch
DelayElapses ==
  /\ fpc = "delay"
  /\ i' = i + batchSize
  /\ delays' = delays + 1
  /\ IssueBatch(i + batchSize)
  /\ fpc' = "awaitAll"
  /\ UNCHANGED <<tickers, results>>
  /\ UNCHANGED <<evars, pvars, hvars, svars>>

(***************************************************************************)
(* getTopPicks                                                             *)
(***************************************************************************)
\* ratingScores[rating.recommendationTrend] || 0
ratingScores(trend) ==
  CASE trend = "strongBuy" -> 5
    [] trend = "buy" -> 4
    [] trend = "hold" -> 3
    [] trend = "sell" -> 2
    [] trend = "strongSell" -> 1
    [] OTHER -> 0

\* the score the map gives a record
ScoreOfNoClamp(rating) ==
  ratingScores(rating.recommendationTrend) * 20
  + (IF rating.upside # Absent THEN rating.upside[1] ELSE 0)
  + rating.numberOfAnalysts * 2
ScoreOfFloored(rating) ==
  ratingScores(rating.recommendationTrend) * 20
  + (IF rating.upside # Absent
     THEN (IF Min(rating.upside[1], 50) < 0 THEN 0 ELSE Min(rating.upside[1], 50))
     ELSE 0)
  + Min(rating.numberOfAnalysts, 10) * 2
ScoreOf(rating) ==
  ratingScores(rating.recommendationTrend) * 20
  + (IF rating.upside # Absent THEN Min(rating.upside[1], 50) ELSE 0)
  + Min(rating.numberOfAnalysts, 10) * 2

\* ratings.map(rating => { ...; return { rating, score }; })
MapScored(rs) == [n \in 1..Len(rs) |-> [rating |-> rs[n], score |-> ScoreOf(rs[n])]]

\* the comparator (a, b) => b.score - a.score
CompareAscending(a, b) == a.score - b.score
Compare(a, b) == b.score - a.score

\* where x goes into the sorted sequence s: before the first element the
\* comparator puts after it (Array.prototype.sort is stable)
RECURSIVE InsertAtTiesFirst(_, _)
InsertAtTiesFirst(s, x) ==
  IF s = << >> THEN << x >>
  ELSE IF Compare(x, Head(s)) <= 0 THEN << x >> \o s
  ELSE << Head(s) >> \o InsertAtTiesFirst(Tail(s), x)

RECURSIVE InsertAt(_, _)
InsertAt(s, x) ==
  IF s = << >> THEN << x >>
  ELSE IF Compare(x, Head(s)) < 0 THEN << x >> \o s
  ELSE << Head(s) >> \o InsertAt(Tail(s), x)

\* scored.sort((a, b) => b.score - a.score)
RECURSIVE SortScored(_)
SortScored(s) ==
  IF s = << >> THEN << >>
  ELSE InsertAt(SortScored(SubSeq(s, 1, Len(s) - 1)), s[Len(s)])

\* Array.prototype.slice(0, end): a negative end counts from the end
SliceOneMore(s, end) ==
  LET to == IF end < 0 THEN Len(s) + end + 1 ELSE Min(end + 1, Len(s))
  IN IF to <= 0 THEN << >> ELSE SubSeq(s, 1, to)
Slice(s, end) ==
  LET to == IF end < 0 THEN Len(s) + end ELSE Min(end, Len(s))
  IN IF to <= 0 THEN << >> ELSE SubSeq(s, 1, to)

\* count: number = 5
DefaultCount == 5

\* the argument array after the call: map, slice and map build new arrays
\* and sort works on the array the first map built
RatingsAfterSortInPlace(rs) ==
  [n \in 1..Len(rs) |-> SortScored(MapScored(rs))[n].rating]
RatingsAfter(rs) == rs

getTopPicks(rs, c) ==
  LET sorted == SortScored(MapScored(rs))
      top == Slice(sorted, Coalesce(c, DefaultCount))
  IN [n \in 1..Len(top) |-> top[n].rating]

\* the records getTopPicks is given
Rating(t, trend, upside, analysts) ==
  [ticker |-> t, companyName |-> t, currentPrice |-> Absent,
   targetPrice |-> Absent, rating |-> "Unknown", numberOfAnalysts |-> analysts,
   recommendationTrend |-> trend, upside |-> upside]

SampleRatings ==
  { Rating("AAPL", "buy", Some(25), 40),
    Rating("MSFT", "strongBuy", Some(-25), 8),
    Rating("V", "hold", Absent, 0),
    Rating("NVDA", "strongBuy", Some(80), 12),
    Rating("LOW", "strongSell", Some(40), 0),
    Rating("TSLA", "unknown", Some(60), 5),
    Rating("C", "sell", Some(-100), 10) }

\* the sequences of n different sample records
RECURSIVE RatingSeqs(_)
RatingSeqs(n) ==
  IF n = 0 THEN { << >> }
  ELSE { Append(s, r) : <<s, r>> \in
           { p \in RatingSeqs(n - 1) \X SampleRatings : p[2] \notin Range(p[1]) } }

RatingInputs == UNION { RatingSeqs(n) : n \in 0..MaxRatings }

Counts == {Absent, Some(-1)} \cup { Some(c) : c \in 0..MaxCount }

PInit ==
  /\ ratings \in RatingInputs
  /\ count \in Counts
  /\ ppc = "ready"
  /\ scored = << >>
  /\ picks = << >>

PIdle ==
  /\ ratings = << >>
  /\ count = Absent
  /\ ppc = "idle"
  /\ scored = << >>
  /\ picks = << >>

CallGetTopPicks ==
  /\ ppc = "ready"
  /\ ppc' = "returned"
  /\ scored' = MapScored(ratings)
  /\ picks' = getTopPicks(ratings, count)
  /\ ratings' = RatingsAfter(ratings)
  /\ count' = count
  /\ UNCHANGED <<evars, fvars, hvars, svars>>

(***************************************************************************)
(* A second invocation of fetchMultipleRatings, running while the first    *)
(* does: the same steps on the record second                               *)
(***************************************************************************)
\* an invocation on the tickers ts that stands at the position at
Invocation(ts, at) ==
  [tickers |-> ts, fpc |-> at, i |-> 0, results |-> << >>,
   calls |-> [k \in 1..Len(ts) |-> NotCalled], issued |-> << >>, delays |-> 0]

\* const results: AnalystRating[] = []: the array an invocation pushes to
\* is its own (mine), not that of another invocation (theirs)
ResultsArrayShared(mine, theirs) == IF Len(theirs) > Len(mine) THEN theirs ELSE mine
ResultsArray(mine, theirs) == mine

\* tickers.slice(i, i + batchSize), as input positions
SecondBatchAt(from) == (from + 1)..Min(from + batchSize, Len(second.tickers))

\* batch.map(ticker => fetchTickerRating(ticker))
SecondIssueBatch(from) ==
  [second EXCEPT
     !.calls = [k \in DOMAIN second.calls |->
                  IF k \in SecondBatchAt(from) THEN Pending("awaitFetch")
                  ELSE second.calls[k]],
     !.issued = second.issued \o
                SubSeq(second.tickers, from + 1,
                       Min(from + batchSize, Len(second.tickers)))]

\* for (const result of batchResults) if (result) results.push(result)
RECURSIVE SecondPushResults(_, _, _)
SecondPushResults(acc, k, last) ==
  IF k > last THEN acc
  ELSE SecondPushResults(IF second.calls[k].val # Absent
                         THEN Append(acc, second.calls[k].val[1]) ELSE acc,
                         k + 1, last)

\* no second invocation runs
SIdle == second = Invocation(<< >>, "idle")

\* the call of fetchMultipleRatings, up to its first await
SecondCall ==
  /\ second.fpc = "ready"
  /\ second' = IF 0 < Len(second.tickers)
               THEN [SecondIssueBatch(0) EXCEPT !.fpc = "awaitAll"]
               ELSE [second EXCEPT !.fpc = "returned"]
  /\ UNCHANGED <<evars, fvars, pvars, hvars>>

\* await fetch(url) settles: it rejects, or the response is not OK, or it
\* is OK and the call goes on to await response.json()
SecondFetchSettles(k) ==
  /\ second.calls[k].st = "awaitFetch"
  /\ \E next \in {Catch, ReturnOnNotOk, Pending("awaitJson")} :
       second' = [second EXCEPT !.calls[k] = next]
  /\ UNCHANGED <<evars, fvars, pvars, hvars>>

\* await response.json() settles: the body is malformed, or holds no
\* result, or holds a quote
SecondJsonSettles(k) ==
  /\ second.calls[k].st = "awaitJson"
  /\ \E next \in {Catch, ReturnOnNoResult, ReturnRating(second.tickers[k])} :
       second' = [second EXCEPT !.calls[k] = next]
  /\ UNCHANGED <<evars, fvars, pvars, hvars>>

\* await Promise.all(...) settles; the rest of the loop body runs
SecondBatchSettles ==
  /\ second.fpc = "awaitAll"
  /\ \A k \in SecondBatchAt(second.i) : second.calls[k].st \in {"fulfilled", "rejected"}
  /\ second' =
       IF \E k \in SecondBatchAt(second.i) : second.calls[k].st = "rejected"
       THEN [second EXCEPT !.fpc = "threw"]
       ELSE [second EXCEPT
               !.results = SecondPushResults(ResultsArray(second.results, results),
                                             second.i + 1,
                                             Min(second.i + batchSize, Len(second.tickers))),
               !.fpc = IF second.i + batchSize < Len(second.tickers)
                       THEN "delay" ELSE "returned",
               !.i = IF second.i + batchSize < Len(second.tickers)
                     THEN second.i ELSE second.i + batchSize]
  /\ UNCHANGED <<evars, fvars, pvars, hvars>>

\* the 200 ms timer fires; the loop goes on to the next batch
SecondDelayElapses ==
  /\ second.fpc = "delay"
  /\ second' = [SecondIssueBatch(second.i + batchSize) EXCEPT
                  !.i = second.i + batchSize,
                  !.delays = second.delays + 1,
                  !.fpc = "awaitAll"]
  /\ UNCHANGED <<evars, fvars, pvars, hvars>>

(***************************************************************************)
(* The request handlers: functions/analyze.ts, POST /analyze and           *)
(* POST /api/analyze-channel of server.ts                                  *)
(***************************************************************************)
Endpoints == {"lambda", "analyze", "analyzeChannel"}

\* the requests: an OPTIONS request, one without body, one whose body is
\* not JSON, one without URL, one whose URL matches no pattern, a good one
RequestsOf(e) ==
  IF e = "lambda" THEN {"options", "noBody", "badJson", "noUrl", "badUrl", "ok"}
  ELSE {"noUrl", "badUrl", "ok"}

\* the URL of a request, and the video it names
UrlOf(e, r) ==
  IF r = "badUrl" THEN "example.com"
  ELSE IF e = "analyzeChannel" THEN "https://www.youtube.com/@genie"
  ELSE "https://www.youtube.com/watch?v=dQw4w9WgXcQ"
VideoId == "dQw4w9WgXcQ"

\* return { statusCode, headers, body: JSON.stringify(...) } and
\* res.status(...).json(...); body is the object that is serialised
Respond(code, b) == Some([statusCode |-> code, body |-> b])

\* the handler up to its first await: the response of a request that is
\* turned down, absent for one that goes on
Validate(e, r) ==
  CASE r = "options" -> Respond(200, "")
    [] r = "noBody" -> Respond(400, [message |-> "Request body is required"])
    [] r = "badJson" ->
         Respond(500, [message |-> "An error occurred while processing the video",
                       error |-> "Unexpected token"])
    [] r = "noUrl" ->
         Respond(400, [message |-> IF e = "analyzeChannel"
                                   THEN "channelUrl is required"
                                   ELSE "videoUrl is required"])
    [] r = "badUrl" ->
         Respond(400, [message |-> IF e = "analyzeChannel"
                                   THEN "Invalid YouTube channel URL"
                                   ELSE "Invalid YouTube video URL"])
    [] OTHER -> Absent

\* what getVideoMetadata returns from its catch block, and from a page
UnknownMetadata == [title |-> "Unknown Title", channelName |-> "Unknown Channel"]
PageMetadata == [title |-> "Stock picks", channelName |-> "Genie"]

\* the transcripts of the videos
Transcripts ==
  { "", "markets were quiet today", "V", "AAPL",
    "AAPL MSFT NVDA LOW TSLA GOOGL META" }

NoCaptions ==
  [message |-> "Could not fetch video transcript. The video may not have captions available."]

\* the response to a transcript without tickers
EmptyResponse(e, r, meta) ==
  IF e = "analyzeChannel"
  THEN [channelUrl |-> UrlOf(e, r),
        channelName |-> meta.channelName,
        latestVideoId |-> VideoId,
        latestVideoTitle |-> meta.title,
        tickers |-> << >>,
        topTickers |-> << >>]
  ELSE [id |-> "analysis_id",
        videoUrl |-> UrlOf(e, r),
        videoTitle |-> meta.title,
        channelName |-> meta.channelName,
        extractedTickers |-> << >>,
        tickerRatings |-> << >>,
        topPicks |-> << >>,
        analysisDate |-> "now",
        message |-> "No stock tickers found in the video transcript"]

\* return res.json(response) for a transcript without tickers
RespondEmptyAsError(e, r, meta) ==
  Respond(404, [message |-> "No stock tickers found in the video transcript"])
RespondEmpty(e, r, meta) == Respond(200, EmptyResponse(e, r, meta))

\* top5.map(rating => ({ ticker, rating, source }))
TopTickers(top) ==
  [n \in 1..Len(top) |->
     [ticker |-> top[n].ticker,
      rating |-> IF top[n].rating = "Unknown"
                 THEN "No rating found on Yahoo Finance." ELSE top[n].rating,
      source |-> "Yahoo Finance"]]

\* the response to a transcript with tickers
FullResponseAllOnTop(e, r, meta, extracted, tickerRatings, top) ==
  IF e = "analyzeChannel"
  THEN [channelUrl |-> UrlOf(e, r),
        channelName |-> meta.channelName,
        latestVideoId |-> VideoId,
        latestVideoTitle |-> meta.title,
        tickers |-> extracted,
        topTickers |-> TopTickers(tickerRatings)]
  ELSE [id |-> "analysis_id",
        videoUrl |-> UrlOf(e, r),
        videoTitle |-> meta.title,
        channelName |-> meta.channelName,
        extractedTickers |-> extracted,
        tickerRatings |-> tickerRatings,
        topPicks |-> tickerRatings,
        analysisDate |-> "now"]
FullResponse(e, r, meta, extracted, tickerRatings, top) ==
  IF e = "analyzeChannel"
  THEN [channelUrl |-> UrlOf(e, r),
        channelName |-> meta.channelName,
        latestVideoId |-> VideoId,
        latestVideoTitle |-> meta.title,
        tickers |-> extracted,
        topTickers |-> TopTickers(top)]
  ELSE [id |-> "analysis_id",
        videoUrl |-> UrlOf(e, r),
        videoTitle |-> meta.title,
        channelName |-> meta.channelName,
        extractedTickers |-> extracted,
        tickerRatings |-> tickerRatings,
        topPicks |-> top,
        analysisDate |-> "now"]

HInit ==
  /\ endpoint \in Endpoints
  /\ request \in RequestsOf(endpoint)
  /\ hpc = "received"
  /\ metadata = UnknownMetadata
  /\ failures = {}
  /\ response = Absent

\* no request is handled
HIdle ==
  /\ endpoint = "none"
  /\ request = "none"
  /\ hpc = "idle"
  /\ metadata = UnknownMetadata
  /\ failures = {}
  /\ response = Absent

\* the handler runs up to its first await or to the response that turns
\* the request down
ReceiveRequest ==
  /\ hpc = "received"
  /\ IF Validate(endpoint, request) # Absent
     THEN /\ response' = Validate(endpoint, request)
          /\ hpc' = "responded"
     ELSE /\ response' = response
          /\ hpc' = IF endpoint = "analyzeChannel" THEN "awaitLatestVideo"
                    ELSE "awaitMetadata"
  /\ UNCHANGED <<endpoint, request, metadata, failures>>
  /\ UNCHANGED svars
  /\ UNCHANGED <<evars, fvars, pvars>>

\* getLatestVideoFromChannel returns null: the channel page could not be
\* fetched or names no video
LatestVideoNotFoundGoesOn ==
  /\ response' = response
  /\ hpc' = "awaitMetadata"
LatestVideoNotFound ==
  /\ response' = Respond(404, [message |-> "Could not find any videos on this channel"])
  /\ hpc' = "responded"

LatestVideoFails ==
  /\ hpc = "awaitLatestVideo"
  /\ failures' = failures \cup {"latestVideo"}
  /\ LatestVideoNotFound
  /\ UNCHANGED <<endpoint, request, metadata>>
  /\ UNCHANGED svars
  /\ UNCHANGED <<evars, fvars, pvars>>

\* getLatestVideoFromChannel returns the URL of a video, from which
\* extractVideoId takes the id
LatestVideoFound ==
  /\ hpc = "awaitLatestVideo"
  /\ hpc' = "awaitMetadata"
  /\ UNCHANGED <<endpoint, request, metadata, failures, response>>
  /\ UNCHANGED svars
  /\ UNCHANGED <<evars, fvars, pvars>>

\* getVideoMetadata catches the failure of its fetch
MetadataFails ==
  /\ hpc = "awaitMetadata"
  /\ metadata' = UnknownMetadata
  /\ failures' = failures \cup {"metadata"}
  /\ hpc' = "awaitTranscript"
  /\ UNCHANGED <<endpoint, request, response>>
  /\ UNCHANGED svars
  /\ UNCHANGED <<evars, fvars, pvars>>

MetadataArrives ==
  /\ hpc = "awaitMetadata"
  /\ metadata' \in {PageMetadata, UnknownMetadata}
  /\ hpc' = "awaitTranscript"
  /\ UNCHANGED <<endpoint, request, failures, response>>
  /\ UNCHANGED svars
  /\ UNCHANGED <<evars, fvars, pvars>>

\* fetchTranscript throws and the handler catches
TranscriptFails ==
  /\ hpc = "awaitTranscript"
  /\ failures' = failures \cup {"transcript"}
  /\ response' = Respond(400, NoCaptions)
  /\ hpc' = "responded"
  /\ UNCHANGED <<endpoint, request, metadata>>
  /\ UNCHANGED svars
  /\ UNCHANGED <<evars, fvars, pvars>>

\* fetchTranscript returns; extractTickers runs; without tickers the handler
\* responds, with tickers it calls fetchMultipleRatings
TranscriptArrives ==
  /\ hpc = "awaitTranscript"
  /\ \E t \in Transcripts :
       LET r == ExtractOf(copy, t)
       IN /\ text' = t
          /\ result' = r.value
          /\ epc' = IF r.threw THEN "threw" ELSE "returned"
          /\ IF r.threw
             THEN /\ response' =
                       Respond(500, [message |-> "An error occurred while processing the video",
                                     error |-> "Cannot read properties of null"])
                  /\ hpc' = "responded"
                  /\ UNCHANGED fvars
             ELSE IF Len(r.value) = 0
             THEN /\ response' = RespondEmpty(endpoint, request, metadata)
                  /\ hpc' = "responded"
                  /\ UNCHANGED fvars
             ELSE /\ response' = response
                  /\ hpc' = "awaitRatings"
                  /\ tickers' = r.value
                  /\ calls' = [k \in 1..Len(r.value) |-> NotCalled]
                  /\ fpc' = "ready"
                  /\ UNCHANGED <<i, results, issued, delays>>
  /\ UNCHANGED <<copy, vpc, valid>>
  /\ UNCHANGED <<endpoint, request, metadata, failures>>
  /\ UNCHANGED svars
  /\ UNCHANGED pvars

\* fetchMultipleRatings has returned; getTopPicks(tickerRatings, 5) runs and
\* the handler responds
RatingsArrive ==
  /\ hpc = "awaitRatings"
  /\ fpc \in {"returned", "threw"}
  /\ IF fpc = "threw"
     THEN /\ response' =
               Respond(500, [message |-> "An error occurred while processing the video",
                             error |-> "fetch failed"])
          /\ UNCHANGED pvars
     ELSE /\ ratings' = results
          /\ count' = Some(5)
          /\ ppc' = "returned"
          /\ scored' = MapScored(results)
          /\ picks' = getTopPicks(results, Some(5))
          /\ response' = Respond(200, FullResponse(endpoint, request, metadata, tickers,
                                                   results, getTopPicks(results, Some(5))))
  /\ hpc' = "responded"
  /\ UNCHANGED <<endpoint, request, metadata, failures>>
  /\ UNCHANGED svars
  /\ UNCHANGED <<evars, fvars>>

(***************************************************************************)
(* Specifications                                                          *)
(***************************************************************************)
\* fetchMultipleRatings is not called
FIdle ==
  /\ tickers = << >>
  /\ fpc = "idle"
  /\ i = 0
  /\ results = << >>
  /\ calls = << >>
  /\ issued = << >>
  /\ delays = 0

\* the extractor is not called
EIdle ==
  /\ copy = "lib"
  /\ text = ""
  /\ epc = "idle"
  /\ result = << >>
  /\ vpc = "idle"
  /\ valid = FALSE

Init == EInit /\ FIdle /\ PIdle /\ HIdle /\ SIdle

Next == CallExtractTickers \/ CallIsValidTicker

Spec == Init /\ [][Next]_vars

InitFetch == EIdle /\ FInit /\ PIdle /\ HIdle /\ SIdle

NextFetch ==
  \/ CallFetchMultipleRatings
  \/ \E k \in DOMAIN calls : FetchRejects(k)
  \/ \E k \in DOMAIN calls : ResponseNotOk(k)
  \/ \E k \in DOMAIN calls : ResponseOk(k)
  \/ \E k \in DOMAIN calls : BodyMalformed(k)
  \/ \E k \in DOMAIN calls : BodyEmpty(k)
  \/ \E k \in DOMAIN calls : BodyQuote(k)
  \/ BatchSettles
  \/ DelayElapses

SpecFetch == InitFetch /\ [][NextFetch]_vars

\* fetchMultipleRatings when the event loop runs every continuation that is
\* ready and every provider call settles in the end
SpecFetchFair == InitFetch /\ [][NextFetch]_vars /\ WF_vars(NextFetch)

InitPicks == EIdle /\ FIdle /\ PInit /\ HIdle /\ SIdle

NextPicks == CallGetTopPicks

SpecPicks == InitPicks /\ [][NextPicks]_vars

\* two invocations of fetchMultipleRatings whose steps interleave
FirstInputs == { SubSeq(TickerPool, 1, n) : n \in 0..MaxBoth }
SecondPool == << "GOOGL", "META", "AMD", "IBM", "GE", "F", "T", "KO", "PFE" >>
SecondInputs(n) == { SubSeq(SecondPool, 1, m) : m \in 0..(MaxBoth - n) }

InitTwo ==
  /\ EIdle
  /\ tickers \in FirstInputs
  /\ fpc = "ready"
  /\ i = 0
  /\ results = << >>
  /\ calls = [k \in 1..Len(tickers) |-> NotCalled]
  /\ issued = << >>
  /\ delays = 0
  /\ PIdle
  /\ HIdle
  /\ second \in { Invocation(ts, "ready") : ts \in SecondInputs(Len(tickers)) }

NextTwo ==
  \/ CallFetchMultipleRatings
  \/ \E k \in DOMAIN calls : FetchRejects(k)
  \/ \E k \in DOMAIN calls : ResponseNotOk(k)
  \/ \E k \in DOMAIN calls : ResponseOk(k)
  \/ \E k \in DOMAIN calls : BodyMalformed(k)
  \/ \E k \in DOMAIN calls : BodyEmpty(k)
  \/ \E k \in DOMAIN calls : BodyQuote(k)
  \/ BatchSettles
  \/ DelayElapses
  \/ SecondCall
  \/ \E k \in DOMAIN second.calls : SecondFetchSettles(k)
  \/ \E k \in DOMAIN second.calls : SecondJsonSettles(k)
  \/ SecondBatchSettles
  \/ SecondDelayElapses

SpecTwo == InitTwo /\ [][NextTwo]_vars

\* a request from its arrival to the response
InitHandler ==
  /\ copy \in Copies
  /\ text = ""
  /\ epc = "idle"
  /\ result = << >>
  /\ vpc = "idle"
  /\ valid = FALSE
  /\ FIdle
  /\ PIdle
  /\ HInit
  /\ SIdle

NextHandler ==
  \/ ReceiveRequest
  \/ LatestVideoFails
  \/ LatestVideoFound
  \/ MetadataFails
  \/ MetadataArrives
  \/ TranscriptFails
  \/ TranscriptArrives
  \/ CallFetchMultipleRatings
  \/ \E k \in DOMAIN calls : FetchRejects(k)
  \/ \E k \in DOMAIN calls : ResponseNotOk(k)
  \/ \E k \in DOMAIN calls : ResponseOk(k)
  \/ \E k \in DOMAIN calls : BodyMalformed(k)
  \/ \E k \in DOMAIN calls : BodyEmpty(k)
  \/ \E k \in DOMAIN calls : BodyQuote(k)
  \/ BatchSettles
  \/ DelayElapses
  \/ RatingsArrive

SpecHandler == InitHandler /\ [][NextHandler]_vars

(***************************************************************************)
(* Vocabulary of the properties                                            *)
(***************************************************************************)
\* the word-bounded runs of 1 to 5 uppercase letters of s
WholeRuns(s) ==
  { SubSeq(s, a, b) : <<a, b>> \in
      { p \in (1..Len(s)) \X (1..Len(s)) :
          /\ p[1] <= p[2]
          /\ p[2] - p[1] < 5
          /\ \A k \in p[1]..p[2] : IsUpper(CharAt(s, k))
          /\ ~WordAt(s, p[1] - 1)
          /\ ~WordAt(s, p[2] + 1) } }

\* the words of s: its maximal runs of word characters
Tokens(s) ==
  { SubSeq(s, a, b) : <<a, b>> \in
      { p \in (1..Len(s)) \X (1..Len(s)) :
          /\ p[1] <= p[2]
          /\ \A k \in p[1]..p[2] : WordAt(s, k)
          /\ ~WordAt(s, p[1] - 1)
          /\ ~WordAt(s, p[2] + 1) } }

\* the Exclusion Set of the loaded copy
ExclusionSet == IF copy = "lib" THEN EXCLUDED_WORDS ELSE EXCLUDED_WORDS_9

\* what the pattern of the loaded copy matched in the text
RawMatches ==
  ScanFrom(text, 1, IF copy = "lib" THEN TICKER_REGEX ELSE TICKER_REGEX_9)

\* C1: the array returned by extractTickers holds no string twice and is in
\* ascending lexicographic order
C1_SortedUnique ==
  epc = "returned" =>
    \A n \in 1..Len(result) : \A j \in 1..Len(result) :
      n < j => result[n] # result[j] /\ StrLess(result[n], result[j])

\* extractTickers has returned two tickers that the text holds in
\* descending order
C1_Witness ==
  /\ epc = "returned"
  /\ Len(result) >= 2
  /\ Len(RawMatches) >= 2
  /\ StrLess(RawMatches[2], RawMatches[1])

\* C2: the strings returned by extractTickers are exactly the word-bounded
\* runs of 1 to 5 uppercase letters of the text that isValidTicker accepts
C2_AgreesWithIsValidTicker ==
  epc = "returned" =>
    Range(result) = { r \in WholeRuns(text) : ValidOf(copy, r) }

\* extractTickers has returned a ticker from a text that also holds a run
\* isValidTicker rejects
C2_Witness ==
  /\ epc = "returned"
  /\ result # << >>
  /\ \E r \in WholeRuns(text) : ~ValidOf(copy, r)

\* C3: every word-bounded uppercase run of the text that is a known ticker
\* is returned by extractTickers and accepted by isValidTicker, also when
\* it is an excluded word
C3_KnownTickerPriority ==
  epc = "returned" =>
    \A r \in WholeRuns(text) \cap KNOWN_TICKERS :
      r \in Range(result) /\ ValidOf(copy, r)

\* C4: a single uppercase letter is returned by extractTickers, and
\* accepted by isValidTicker, if and only if it is a known ticker
C4_SingleLetterIffKnown ==
  /\ epc = "returned" =>
       \A r \in WholeRuns(text) :
         Len(r) = 1 => (r \in Range(result) <=> r \in KNOWN_TICKERS)
  /\ (vpc = "returned" /\ Len(text) = 1 /\ IsUpper(text)) =>
       (valid <=> text \in KNOWN_TICKERS)

C6_OnlyWholeRuns ==
  epc = "returned" => Range(result) \subseteq WholeRuns(text)

\* extractTickers has returned a ticker from a text with an uppercase
\* letter outside every whole run
C6_Witness ==
  /\ epc = "returned"
  /\ result # << >>
  /\ \E n \in 1..Len(text) :
       /\ IsUpper(CharAt(text, n))
       /\ \A k \in 1..Len(text) : \A l \in 1..Len(text) :
            (k <= n /\ n <= l) => SubSeq(text, k, l) \notin WholeRuns(text)

\* C7: extractTickers never throws, and returns the empty array for the
\* empty string and for every text without a word-bounded uppercase run
C7_Total ==
  /\ epc # "threw"
  /\ (epc = "returned" /\ WholeRuns(text) = {}) => result = << >>

\* extractTickers has returned for the empty string
C7_Witness == epc = "returned" /\ text = "" /\ result = << >>

\* C8: isValidTicker returns false for every string that is not made of 1
\* to 5 uppercase letters, and true for every string of 2 to 5 uppercase
\* letters that is in neither dictionary
C8_IsValidTickerTiers ==
  vpc = "returned" =>
    /\ ~TestAnchored(text, 1, 5) => valid = FALSE
    /\ (TestAnchored(text, 2, 5) /\ text \notin KNOWN_TICKERS \cup ExclusionSet)
         => valid = TRUE

\* isValidTicker has rejected a word with a digit
C8_Witness == vpc = "returned" /\ text = "AA1" /\ valid = FALSE

\* the input positions whose provider call failed: it settled without a quote
FailedCalls == { k \in DOMAIN calls : calls[k].st = "fulfilled" /\ ~calls[k].ok }

\* the input positions whose provider call succeeded
SucceededCalls == { k \in DOMAIN calls : calls[k].st = "fulfilled" /\ calls[k].ok }

\* C9: fetchMultipleRatings never throws, and when it returns the result
\* holds one record for each input position whose provider call succeeded
\* and none for a position whose call failed
C9_FailuresAbsorbed ==
  /\ fpc # "threw"
  /\ fpc = "returned" =>
       /\ SucceededCalls \cup FailedCalls = DOMAIN calls
       /\ Len(results) = Cardinality(SucceededCalls)
       /\ \A t \in Range(tickers) :
            Cardinality({ j \in 1..Len(results) : results[j].ticker = t })
              = Cardinality({ k \in SucceededCalls : tickers[k] = t })

\* fetchMultipleRatings has returned after a failure followed by a success
\* in the first batch, a failure and a success in the second batch, and a
\* success in the third
C9_Witness ==
  /\ fpc = "returned"
  /\ \E k1 \in 1..batchSize : \E k2 \in 1..batchSize :
       k1 < k2 /\ k1 \in FailedCalls /\ k2 \in SucceededCalls
  /\ \E k1 \in DOMAIN calls : \E k2 \in DOMAIN calls :
       /\ batchSize < k1 /\ k1 <= 2 * batchSize
       /\ batchSize < k2 /\ k2 <= 2 * batchSize
       /\ k1 \in FailedCalls
       /\ k2 \in SucceededCalls
  /\ \E k \in DOMAIN calls : 2 * batchSize < k /\ k \in SucceededCalls

\* a step in which the provider call of position k fails
ProviderFails(k) ==
  FetchRejects(k) \/ ResponseNotOk(k) \/ BodyMalformed(k) \/ BodyEmpty(k)

\* C10: no fetchTickerRating promise is ever rejected, and every failure of
\* the provider call (network error, status not OK, malformed or empty
\* body) fulfils the promise with null
C10_FailureIsNull ==
  /\ [](\A k \in DOMAIN calls : calls[k].st # "rejected")
  /\ [][\A k \in DOMAIN calls :
          ProviderFails(k) => calls'[k].st = "fulfilled" /\ calls'[k].val = Absent]_vars

\* a provider call has failed while its batch is awaited
C10_Witness ==
  /\ fpc = "awaitAll"
  /\ \E k \in BatchAt(i) : k \in FailedCalls

\* the input positions whose call is issued in this step
NewlyIssued ==
  { p \in DOMAIN calls : calls[p].st = "none" /\ calls'[p].st # "none" }

\* the batches started so far
BatchesStarted == IF fpc = "ready" THEN 0 ELSE delays + 1

\* the input positions of batch b (from 0): 5b + 1 to 5b + 5, 1-based
PositionsOfBatch(b) == { p \in DOMAIN calls : 5 * b < p /\ p <= 5 * b + 5 }

\* the batch (from 0) of input position p
BatchOf(p) == (p - 1) \div 5

\* the calls awaiting the provider
InFlight == { p \in DOMAIN calls : calls[p].st \in {"awaitFetch", "awaitJson"} }

\* C11: the calls issued together as batch b (from 0) are exactly those of
\* the input positions 5b to 5b + 4 (from 0), whatever the earlier calls
\* gave; the batch awaited is the one the loop variable points at
C11_BatchesSliceInput ==
  /\ [][NewlyIssued # {} => NewlyIssued = PositionsOfBatch(BatchesStarted)]_vars
  /\ [](fpc \in {"awaitAll", "delay"} =>
          /\ i = 5 * (BatchesStarted - 1)
          /\ BatchAt(i) = PositionsOfBatch(BatchesStarted - 1)
          /\ \A p \in DOMAIN calls : calls[p].st # "none" <=> p <= i + 5)

\* the second batch, shorter than 5, is awaited after a failure and a
\* success in the first
C11_Witness ==
  /\ fpc = "awaitAll"
  /\ i = 5
  /\ Len(tickers) = 7
  /\ \E p \in 1..5 : p \in FailedCalls
  /\ \E p \in 1..5 : p \in SucceededCalls

\* C12: a call of a later batch is issued only when every call of the
\* batches before has settled and the delay after the batch before has
\* elapsed, so at most 5 calls are in flight
C12_BatchesSequential ==
  /\ [](/\ Cardinality(InFlight) <= 5
        /\ \A p \in DOMAIN calls : \A q \in DOMAIN calls :
             (BatchOf(p) < BatchOf(q) /\ calls[q].st # "none")
               => calls[p].st = "fulfilled"
        /\ fpc = "delay" => InFlight = {})
  /\ [][(NewlyIssued # {} /\ fpc # "ready")
          => (fpc = "delay" /\ delays' = delays + 1)]_vars

\* five calls of the second batch are in flight after one delay
C12_Witness ==
  /\ fpc = "awaitAll"
  /\ i = 5
  /\ delays = 1
  /\ Cardinality(InFlight) = 5

\* C13: the tickers asked for are the input read in order, each position
\* once: no call for another string, all of the input asked for at the
\* return, and no position asked for again after its call has gone on or
\* failed
C13_CallsAreTheInput ==
  /\ [](/\ Len(issued) <= Len(tickers)
        /\ issued = SubSeq(tickers, 1, Len(issued))
        /\ \A p \in DOMAIN calls : calls[p].st # "none" <=> p <= Len(issued)
        /\ fpc = "returned" => issued = tickers)
  /\ [][\A p \in DOMAIN calls :
          calls'[p].st = "awaitFetch" => calls[p].st \in {"none", "awaitFetch"}]_vars

\* fetchMultipleRatings has returned for an input that names a ticker
\* twice, after a call has failed
C13_Witness ==
  /\ fpc = "returned"
  /\ \E p \in DOMAIN calls : \E q \in DOMAIN calls :
       p < q /\ tickers[p] = tickers[q] /\ p \in FailedCalls
  /\ issued = tickers

\* the score as the specification states it
TrendWeight(trend) ==
  CASE trend = "strongBuy" -> 5
    [] trend = "buy" -> 4
    [] trend = "hold" -> 3
    [] trend = "sell" -> 2
    [] trend = "strongSell" -> 1
    [] trend = "unknown" -> 0

StatedScore(r) ==
  20 * TrendWeight(r.recommendationTrend)
  + (IF r.upside = Absent THEN 0
     ELSE IF r.upside[1] < 50 THEN r.upside[1] ELSE 50)
  + 2 * (IF r.numberOfAnalysts < 10 THEN r.numberOfAnalysts ELSE 10)

\* the position of the record r in the input of getTopPicks
InputIndex(r) == CHOOSE n \in 1..Len(ratings) : ratings[n] = r

\* the records of the input that are not in the result
LeftOut == Range(ratings) \ Range(picks)

\* C14: for a count >= 0 getTopPicks returns min(count, number of records)
\* records, and 5 stands for a count that is not given
C14_ReturnsMinCount ==
  ppc = "returned" =>
    LET c == IF count = Absent THEN 5 ELSE count[1]
    IN c >= 0 =>
         Len(picks) = (IF c < Len(ratings) THEN c ELSE Len(ratings))

\* getTopPicks, called without count on 6 records, has returned 5
C14_Witness ==
  /\ ppc = "returned"
  /\ count = Absent
  /\ Len(ratings) = 6
  /\ Len(picks) = 5

\* C15: the result is in descending order of score and no record left out
\* has a score above the score of a record in the result
C15_DescendingTop ==
  ppc = "returned" =>
    /\ \A n \in 1..Len(picks) : \A m \in 1..Len(picks) :
         n < m => StatedScore(picks[n]) >= StatedScore(picks[m])
    /\ \A r \in LeftOut : \A q \in Range(picks) :
         StatedScore(r) <= StatedScore(q)

\* getTopPicks has returned some records and left out others of an input
\* that began in ascending order of score
C15_Witness ==
  /\ ppc = "returned"
  /\ Len(picks) >= 2
  /\ LeftOut # {}
  /\ StatedScore(ratings[1]) < StatedScore(ratings[2])

\* C16: the score getTopPicks gives each record is 20 x weight(trend)
\* + min(upside, 50), or 0 without upside, + 2 x min(analyst count, 10)
C16_ScoreFormula ==
  ppc = "returned" =>
    /\ Len(scored) = Len(ratings)
    /\ \A n \in 1..Len(ratings) :
         /\ scored[n].rating = ratings[n]
         /\ scored[n].score = StatedScore(ratings[n])

\* a record with upside above 50 and more than 10 analysts, and a record
\* without upside, have been scored
C16_Witness ==
  /\ ppc = "returned"
  /\ \E n \in 1..Len(scored) :
       /\ ratings[n].upside # Absent
       /\ ratings[n].upside[1] > 50
       /\ ratings[n].numberOfAnalysts > 10
       /\ scored[n].score = 170
  /\ \E n \in 1..Len(scored) : ratings[n].upside = Absent

\* C17: records of equal score keep their input order in the result, and
\* of a group of equal scores cut by count the earlier records are kept
C17_StableOnTies ==
  ppc = "returned" =>
    /\ \A n \in 1..Len(picks) : \A m \in 1..Len(picks) :
         (n < m /\ StatedScore(picks[n]) = StatedScore(picks[m]))
           => InputIndex(picks[n]) < InputIndex(picks[m])
    /\ \A r \in LeftOut : \A q \in Range(picks) :
         StatedScore(r) = StatedScore(q) => InputIndex(q) < InputIndex(r)

\* the result holds two records of equal score and leaves out a third of
\* that score
C17_Witness ==
  /\ ppc = "returned"
  /\ \E n \in 1..Len(picks) : \E m \in 1..Len(picks) : \E r \in LeftOut :
       /\ n < m
       /\ StatedScore(picks[n]) = StatedScore(picks[m])
       /\ StatedScore(r) = StatedScore(picks[n])

\* the records fetchTickerRating has produced
ProducedRatings == { calls[k].val[1] : k \in SucceededCalls }

\* C18: in every record fetchTickerRating produces, upside is absent exactly
\* when the current price or the target price is absent, and with both
\* prices present, a zero target price included, upside is
\* (target - current) / current x 100
C18_UpsideInvariant ==
  \A r \in ProducedRatings :
    /\ r.upside = Absent <=> (r.currentPrice = Absent \/ r.targetPrice = Absent)
    /\ (r.currentPrice # Absent /\ r.targetPrice # Absent /\ r.currentPrice[1] # 0)
         => r.upside = Some(((r.targetPrice[1] - r.currentPrice[1]) * 100)
                              \div r.currentPrice[1])

\* the status and the body of the response sent
StatusCode == response[1].statusCode
Body == response[1].body

\* the ticker list and the rating lists a success response carries
TickerList == IF endpoint = "analyzeChannel" THEN Body.tickers ELSE Body.extractedTickers
RatingLists ==
  IF endpoint = "analyzeChannel" THEN { Body.topTickers }
  ELSE { Body.tickerRatings, Body.topPicks }

\* some provider call of the request has failed
SomeProviderFailed == failures # {} \/ FailedCalls # {}

\* a success response with the results that are left: the tickers
\* extracted, and ratings only of tickers whose provider call succeeded
SuccessWithPartialResults ==
  /\ StatusCode = 200
  /\ TickerList = result
  /\ \A l \in RatingLists : \A n \in 1..Len(l) :
       \E k \in SucceededCalls : tickers[k] = l[n].ticker

C20_EmptyOutcomesDistinct ==
  (hpc = "responded" /\ epc = "returned") =>
    /\ result = << >> =>
         /\ StatusCode = 200
         /\ TickerList = << >>
         /\ \A l \in RatingLists : l = << >>
         /\ issued = << >>
    /\ (result # << >> /\ SucceededCalls = {}) =>
         /\ StatusCode = 200
         /\ TickerList = result
         /\ TickerList # << >>
         /\ \A l \in RatingLists : l = << >>
         /\ response # RespondEmpty(endpoint, request, metadata)

\* seven tickers were extracted, every rating call failed and the request
\* has been answered
C20_Witness ==
  /\ hpc = "responded"
  /\ Len(result) = 7
  /\ FailedCalls = DOMAIN calls
  /\ StatusCode = 200

\* C22: the calls of a batch are all issued in one step, before any of
\* them is awaited; the batch resolves only when every one of its calls has
\* run to completion, and the failure of a call changes no sibling
C22_BatchRunsToCompletion ==
  /\ [][NewlyIssued # {} =>
          /\ NewlyIssued = BatchAt(i')
          /\ \A p \in NewlyIssued : calls'[p].st = "awaitFetch"
          /\ fpc' = "awaitAll"]_vars
  /\ [][(fpc = "awaitAll" /\ fpc' # "awaitAll") =>
          /\ fpc' \in {"delay", "returned"}
          /\ BatchAt(i) \subseteq FailedCalls \cup SucceededCalls]_vars
  /\ [][\A k \in DOMAIN calls :
          (k \notin FailedCalls /\ k \in FailedCalls') =>
            /\ fpc' = fpc
            /\ \A p \in DOMAIN calls : p # k => calls'[p] = calls[p]]_vars

\* the first call of a batch of five failed and its four siblings went on
\* to succeed before the batch resolved
C22_Witness ==
  /\ fpc = "returned"
  /\ Len(tickers) = 5
  /\ 1 \in FailedCalls
  /\ 2..5 \subseteq SucceededCalls

\* C24: while a provider call has not settled, fetchMultipleRatings stays at
\* the await of that call's batch: it has not returned, no call of a later
\* batch is issued, and no step taken meanwhile issues a call or returns
C24_HungCallStalls ==
  /\ [](\A p \in InFlight :
          /\ fpc = "awaitAll"
          /\ p \in BatchAt(i)
          /\ \A q \in DOMAIN calls : q > i + batchSize => calls[q].st = "none")
  /\ [][(InFlight \cap InFlight' # {}) =>
          /\ fpc' = "awaitAll"
          /\ issued' = issued
          /\ results' = results]_vars

\* of a first batch of five, four calls have settled and one has not; two
\* tickers of the next batch wait
C24_Witness ==
  /\ fpc = "awaitAll"
  /\ i = 0
  /\ Len(tickers) = 7
  /\ InFlight = {3}
  /\ Len(issued) = 5

\* the tickers of the input positions up to k whose provider call succeeded
RECURSIVE SucceededTickers(_)
SucceededTickers(k) ==
  IF k = 0 THEN << >>
  ELSE IF k \in SucceededCalls THEN Append(SucceededTickers(k - 1), tickers[k])
  ELSE SucceededTickers(k - 1)

\* the tickers of the records collected so far
ResultTickers == [n \in 1..Len(results) |-> results[n].ticker]

\* C26: the tickers of the records fetchMultipleRatings returns, read in
\* order, are the input tickers whose provider call succeeded, in input
\* order
C26_ResultsKeepInputOrder ==
  /\ fpc = "returned" => ResultTickers = SucceededTickers(Len(tickers))
  /\ fpc = "delay" => ResultTickers = SucceededTickers(i + batchSize)

\* of seven tickers the second and the sixth failed; the five others are
\* returned in input order
C26_Witness ==
  /\ fpc = "returned"
  /\ Len(tickers) = 7
  /\ FailedCalls = {2, 6}
  /\ ResultTickers = << "AAPL", "V", "AAPL", "NVDA", "TSLA" >>

\* the number of batches of an input of n tickers: ceil(n / 5)
BatchesOf(n) == (n + 4) \div 5

\* C27: fetchMultipleRatings waits the delay only when a batch follows:
\* max(0, ceil(N/5) - 1) times by the return and never after the last
\* batch; on an empty input it issues no call, waits no delay and returns
\* the empty sequence
C27_DelayOnlyBetweenBatches ==
  LET N == Len(tickers)
      waits == IF fpc = "delay" THEN delays + 1 ELSE delays
  IN /\ fpc = "delay" => i + 5 < N
     /\ waits <= (IF N = 0 THEN 0 ELSE BatchesOf(N) - 1)
     /\ fpc = "returned" => delays = (IF N = 0 THEN 0 ELSE BatchesOf(N) - 1)
     /\ (fpc = "returned" /\ N = 0) =>
          (issued = << >> /\ delays = 0 /\ results = << >>)

\* ten tickers, two full batches, have been fetched with one delay
C27_Witness ==
  /\ fpc = "returned"
  /\ Len(tickers) = 10
  /\ Len(issued) = 10
  /\ delays = 1

\* the batches issued so far
BatchesIssued == IF issued = << >> THEN 0 ELSE delays + 1

\* C25: when every provider call settles in the end, fetchMultipleRatings
\* on N tickers returns in the end, and it has then issued ceil(N/5)
\* batches and N provider calls
C25_EventuallyReturns ==
  /\ <>(fpc = "returned")
  /\ [](fpc = "returned" =>
          /\ BatchesIssued = BatchesOf(Len(tickers))
          /\ Len(issued) = Len(tickers)
          /\ \A p \in DOMAIN calls : calls[p].st = "fulfilled")

\* eleven tickers have been fetched in three batches
C25_Witness ==
  /\ fpc = "returned"
  /\ Len(tickers) = 11
  /\ BatchesIssued = 3
  /\ Len(issued) = 11

\* C23: no score exceeds 170; an upside above 50 counts as 50 and an
\* analyst count above 10 as 10; a negative upside is subtracted in full,
\* so that a record of a better trend can rank below one of a worse trend
C23_ClampsBoundScore ==
  ppc = "returned" =>
    \A n \in 1..Len(scored) :
      LET r == scored[n].rating
          w == 20 * TrendWeight(r.recommendationTrend)
          up == IF r.upside = Absent THEN 0 ELSE r.upside[1]
      IN /\ scored[n].score <= 170
         /\ (up > 50 /\ r.numberOfAnalysts > 10) => scored[n].score = w + 50 + 20
         /\ (up > 50 /\ r.numberOfAnalysts <= 10) =>
              scored[n].score = w + 50 + 2 * r.numberOfAnalysts
         /\ (up <= 50 /\ r.numberOfAnalysts > 10) => scored[n].score = w + up + 20
         /\ (up < 0 /\ r.numberOfAnalysts <= 10) =>
              scored[n].score = w + up + 2 * r.numberOfAnalysts

\* a record at the clamps scores 170, and a strongBuy record of negative
\* upside is ranked below a buy record
C23_Witness ==
  /\ ppc = "returned"
  /\ \E n \in 1..Len(scored) :
       /\ scored[n].rating.upside # Absent
       /\ scored[n].rating.upside[1] > 50
       /\ scored[n].rating.numberOfAnalysts > 10
       /\ scored[n].score = 170
  /\ \E n \in 1..Len(picks) : \E m \in 1..Len(picks) :
       /\ n < m
       /\ picks[n].recommendationTrend = "buy"
       /\ picks[m].recommendationTrend = "strongBuy"
       /\ picks[m].upside # Absent
       /\ picks[m].upside[1] < 0

\* the number of times x occurs in the sequence s
Occurrences(s, x) == Cardinality({ n \in 1..Len(s) : s[n] = x })

\* C28: getTopPicks leaves its input as it was, and every record it returns
\* is a record of the input, field for field, returned at most as many
\* times as the input holds it
C28_InputUnchanged ==
  /\ [][(ppc = "ready" /\ ppc' = "returned") => ratings' = ratings]_vars
  /\ [](ppc = "returned" =>
          \A n \in 1..Len(picks) :
            /\ picks[n] \in Range(ratings)
            /\ Occurrences(picks, picks[n]) <= Occurrences(ratings, picks[n]))

\* getTopPicks has returned five of six records in an order that is not
\* that of the input
C28_Witness ==
  /\ ppc = "returned"
  /\ Len(ratings) = 6
  /\ Len(picks) = 5
  /\ picks # SubSeq(ratings, 1, 5)
  /\ StatedScore(ratings[1]) < StatedScore(ratings[6])

\* C29: for a count of zero or below getTopPicks returns the empty sequence
C29_NonPositiveCountEmpty ==
  (ppc = "returned" /\ count # Absent /\ count[1] <= 0) => picks = << >>

\* the request has been answered with the result of an analysis
AnalysisSucceeded == hpc = "responded" /\ epc = "returned" /\ StatusCode = 200

\* C30: in a success response the top picks are records of the ratings,
\* every rating is of an extracted ticker and no ticker has two, and the
\* top picks are 5 at most; the rating provider is called only once the
\* transcript has arrived and tickers were extracted from it
C30_PipelineConsistent ==
  /\ [](AnalysisSucceeded =>
          IF endpoint = "analyzeChannel"
          THEN /\ Len(Body.topTickers) <= 5
               /\ \A n \in 1..Len(Body.topTickers) :
                    /\ Body.topTickers[n].ticker \in Range(Body.tickers)
                    /\ \A m \in 1..Len(Body.topTickers) :
                         Body.topTickers[m].ticker = Body.topTickers[n].ticker => m = n
          ELSE /\ Len(Body.topPicks) <= 5
               /\ \A n \in 1..Len(Body.topPicks) :
                    Body.topPicks[n] \in Range(Body.tickerRatings)
               /\ \A n \in 1..Len(Body.tickerRatings) :
                    /\ Body.tickerRatings[n].ticker \in Range(Body.extractedTickers)
                    /\ \A m \in 1..Len(Body.tickerRatings) :
                         Body.tickerRatings[m].ticker = Body.tickerRatings[n].ticker
                           => m = n)
  /\ [](issued # << >> =>
          /\ "transcript" \notin failures
          /\ epc = "returned"
          /\ result # << >>
          /\ hpc \in {"awaitRatings", "responded"})
  /\ [][issued' # issued => (hpc = "awaitRatings" /\ tickers = result)]_vars

\* seven tickers were extracted, all got a rating, and the response holds
\* the seven ratings and five top picks
C30_Witness ==
  /\ AnalysisSucceeded
  /\ endpoint = "lambda"
  /\ Len(Body.extractedTickers) = 7
  /\ Len(Body.tickerRatings) = 7
  /\ Len(Body.topPicks) = 5

\* the records an invocation returns when it runs alone and its calls are
\* answered as in cs: those of the calls up to k that succeeded, in order
RECURSIVE AloneResults(_, _)
AloneResults(cs, k) ==
  IF k = 0 THEN << >>
  ELSE IF cs[k].st = "fulfilled" /\ cs[k].ok
  THEN Append(AloneResults(cs, k - 1), cs[k].val[1])
  ELSE AloneResults(cs, k - 1)

\* C21: of two invocations of fetchMultipleRatings whose steps interleave
\* each returns the records it returns when run alone on the same provider
\* answers: none of the other's records, none of its own lost, and no step
\* of one changes the state of the other
C21_InvocationsIndependent ==
  /\ [](fpc = "returned" => results = AloneResults(calls, Len(calls)))
  /\ [](second.fpc = "returned" =>
          second.results = AloneResults(second.calls, Len(second.calls)))
  /\ [](/\ \A n \in 1..Len(results) : results[n].ticker \in Range(tickers)
        /\ \A n \in 1..Len(second.results) :
             second.results[n].ticker \in Range(second.tickers))
  /\ [][second' # second => UNCHANGED fvars]_vars
  /\ [][fvars' # fvars => second' = second]_vars

\* the second invocation has started and returned, with one of its two
\* calls failed, while the first waits for its batch, of which calls have
\* succeeded, failed and not yet settled
C21_Witness ==
  /\ fpc = "awaitAll"
  /\ SucceededCalls # {}
  /\ FailedCalls # {}
  /\ InFlight # {}
  /\ second.fpc = "returned"
  /\ Len(second.tickers) = 2
  /\ Len(second.results) = 1

====
